---- MODULE Spec2Model ----
(***************************************************************************)
(* A model of the pipeline kernel (core/kernel) and of the decision engine *)
(* (core/arana) of udae-backend.                                           *)
(*                                                                         *)
(* Spec      : one Pipeline object, driven by one caller that calls        *)
(*             execute() repeatedly and reads the results property.        *)
(* SpecArana : the decision engine: aggregate_verdicts, apply_precedence,  *)
(*             the Decision constructor and AranaStage.execute.            *)
(***************************************************************************)
EXTENDS Integers, Sequences, FiniteSets, TLC

VARIABLES
    stages,        \* Pipeline.stages: the ordered stage definitions
    context,       \* the PipelineContext of the current execute call
    _results,      \* Pipeline._results
    pc,            \* position of the caller / of execute
    idx,           \* 1-based position of the for loop of execute in stages
    result,        \* the local variable `result` of execute
    raised,        \* the exception that left execute, or None
    returned,      \* the list execute returned, or None
    got,           \* what the caller last read from Pipeline.results
    runs,          \* number of execute calls made so far
    invoked,       \* history: the stage calls of the current run
    prev,          \* history: per context, what the previous run with it left
    a_meta,        \* decision engine: context.meta, a set of <<key, value>>
    a_pc,          \* decision engine: position
    partition,     \* decision engine: what aggregate_verdicts returned
    status,        \* decision engine: what apply_precedence returned
    decision,      \* decision engine: the Decision record last constructed
    stage_result,  \* decision engine: what AranaStage.execute returned
    h_a, h_b,      \* hasher: the two values handed to hash_json
    h_da, h_db,    \* hasher: what hash_json returned for each (or the exception)
    h_pc,          \* hasher: position
    m_a, m_b,      \* domain model: two record objects (kind, content, identity)
    m_order,       \* domain model: the order of the digests in play, ascending
    m_pc,          \* domain model: position
    m_err,         \* domain model: the exception of the last failed attempt
    x_ctx,         \* context: the PipelineContext object
    x_made,        \* context: its content when it was constructed
    x_pc,          \* context: position
    x_err,         \* context: the exception of the last failed attempt
    c_stages,      \* concurrent runs: Pipeline.stages
    c_results,     \* concurrent runs: Pipeline._results, shared by the calls
    c_call,        \* concurrent runs: per call, its position and locals
    l_context,     \* layout stage: the context dict handed in
    l_pc,          \* layout stage: position
    l_facts,       \* layout stage: what extract_layout_facts returned
    l_verdicts,    \* layout stage: what validate_apa7_layout returned
    l_result       \* layout stage: what apa7_layout_stage returned

kernel_vars == <<stages, context, _results, pc, idx, result, raised, returned,
                 got, runs, invoked, prev>>
arana_vars == <<a_meta, a_pc, partition, status, decision, stage_result>>
hash_vars == <<h_a, h_b, h_da, h_db, h_pc>>
model_vars == <<m_a, m_b, m_order, m_pc, m_err>>
context_vars == <<x_ctx, x_made, x_pc, x_err>>
conc_vars == <<c_stages, c_results, c_call>>
layout_vars == <<l_context, l_pc, l_facts, l_verdicts, l_result>>
ext_vars == <<hash_vars, model_vars, context_vars, conc_vars, layout_vars>>
vars == <<kernel_vars, arana_vars, ext_vars>>

None == "None"

\* the parts of the system a specification does not exercise
HashIdle ==
    /\ h_a = <<>> /\ h_b = <<>> /\ h_da = <<>> /\ h_db = <<>> /\ h_pc = "off"

ModelIdle ==
    /\ m_a = <<>> /\ m_b = <<>> /\ m_order = <<>> /\ m_pc = "off" /\ m_err = <<>>

ContextIdle ==
    /\ x_ctx = <<>> /\ x_made = <<>> /\ x_pc = "off" /\ x_err = <<>>

ConcIdle ==
    /\ c_stages = <<>> /\ c_results = <<>> /\ c_call = <<>>

LayoutIdle ==
    /\ l_context = <<>> /\ l_pc = "off" /\ l_facts = <<>> /\ l_verdicts = <<>>
    /\ l_result = <<>>

\* ---------------------------------------------------------------- bounds
MaxStages == 3
MaxRuns == 3
MaxVerdicts == 3
MaxDecided == 2

BoundedSeq(S, n) == UNION {[1..k -> S] : k \in 0..n}

\* ------------------------------------------------------- kernel: the types

\* class StageName(str, Enum): member -> value
StageName == [STAGE_A |-> "stage_a", STAGE_B |-> "stage_b", STAGE_C |-> "stage_c"]

\* dataclass StageResult
StageResult(ok, blocking, output, error) ==
    [ok |-> ok, blocking |-> blocking, output |-> output, error |-> error]

\* dataclass StageDefinition
StageDefinition(name, blocking, fn) ==
    [name |-> name, blocking |-> blocking, fn |-> fn]

\* dataclass PipelineContext
PipelineContext(document_ref, normative_context, facts_snapshot, run_id, meta) ==
    [document_ref |-> document_ref, normative_context |-> normative_context,
     facts_snapshot |-> facts_snapshot, run_id |-> run_id, meta |-> meta]

\* ------------------------------------------------ decision engine: types

\* dataclass Verdict (content fields)
Verdict(rule_id, snapshot_id, res, evidence_ids, reasoning, severity) ==
    [rule_id |-> rule_id, snapshot_id |-> snapshot_id, result |-> res,
     evidence_ids |-> evidence_ids, reasoning |-> reasoning, severity |-> severity]

RuleIds == {"rule_001", "rule_002"}
VerdictResults == {"PASS", "FAIL"}
\* "critical" is the severity the layout rule table uses
Severities == {"error", "warning", "critical"}

\* The verdicts a caller supplies.
VerdictPool ==
    { Verdict(r, "snap_001", res, <<"ev_001">>, "because", sev) :
        r \in RuleIds, res \in VerdictResults, sev \in Severities }

\* dataclass Decision (content fields)
Decision(st, blocking_failures, non_blocking_failures, all_verdicts) ==
    [status |-> st, blocking_failures |-> blocking_failures,
     non_blocking_failures |-> non_blocking_failures, all_verdicts |-> all_verdicts]

NoDecision == Decision(None, <<>>, <<>>, <<>>)

\* the four lists of aggregate_verdicts, in the order of the returned tuple
Lists(bf, nbf, bp, nbp) ==
    [blocking_failures |-> bf, non_blocking_failures |-> nbf,
     blocking_passes |-> bp, non_blocking_passes |-> nbp]

EmptyLists == Lists(<<>>, <<>>, <<>>, <<>>)

\* ------------------------------------- decision engine: the functions

\* a bug: the test for a failure is dropped, every error-level verdict blocks
Classify_SeverityOnly(acc, v) ==
    LET is_blocking == v.severity = "error" IN
    IF is_blocking
      THEN [acc EXCEPT !.blocking_failures = Append(@, v)]
      ELSE [acc EXCEPT !.non_blocking_passes = Append(@, v)]

\* a bug: a failure that does not block is not kept
Classify_DropNonBlocking(acc, v) ==
    LET is_blocking == v.severity = "error"
        is_failure == v.result = "FAIL"
    IN IF is_failure /\ is_blocking
         THEN [acc EXCEPT !.blocking_failures = Append(@, v)]
       ELSE IF is_failure /\ ~is_blocking
         THEN acc
       ELSE IF ~is_failure /\ is_blocking
         THEN [acc EXCEPT !.blocking_passes = Append(@, v)]
       ELSE [acc EXCEPT !.non_blocking_passes = Append(@, v)]

\* the body of the for loop of aggregate_verdicts
Classify(acc, v) ==
    LET is_blocking == v.severity = "error"
        is_failure == v.result = "FAIL"
    IN IF is_failure /\ is_blocking
         THEN [acc EXCEPT !.blocking_failures = Append(@, v)]
       ELSE IF is_failure /\ ~is_blocking
         THEN [acc EXCEPT !.non_blocking_failures = Append(@, v)]
       ELSE IF ~is_failure /\ is_blocking
         THEN [acc EXCEPT !.blocking_passes = Append(@, v)]
       ELSE [acc EXCEPT !.non_blocking_passes = Append(@, v)]

\* for v in verdicts, from position i on
RECURSIVE AggregateFrom(_, _, _)
AggregateFrom(vs, i, acc) ==
    IF i > Len(vs) THEN acc ELSE AggregateFrom(vs, i + 1, Classify(acc, vs[i]))

aggregate_verdicts(vs) == AggregateFrom(vs, 1, EmptyLists)

apply_precedence(blocking_failures) ==
    IF Len(blocking_failures) > 0 THEN "FAIL" ELSE "PASS"

\* Mapping.get(key, default)
MetaGet(m, key, default) ==
    IF \E p \in m : p[1] = key THEN (CHOOSE p \in m : p[1] = key)[2] ELSE default

\* a bug: the stage reports ok whatever the status
AranaExecute_AlwaysOk(m) ==
    LET vs == MetaGet(m, "verdicts", <<>>)
        agg == aggregate_verdicts(vs)
        st == apply_precedence(agg.blocking_failures)
        d == Decision(st, agg.blocking_failures, agg.non_blocking_failures, vs)
    IN [partition |-> agg, status |-> st, decision |-> d,
        stage_result |-> StageResult(TRUE, TRUE, d, None)]

\* a bug: the Decision keeps the failures only
AranaExecute_FailuresOnly(m) ==
    LET vs == MetaGet(m, "verdicts", <<>>)
        agg == aggregate_verdicts(vs)
        st == apply_precedence(agg.blocking_failures)
        d == Decision(st, agg.blocking_failures, agg.non_blocking_failures,
                      agg.blocking_failures \o agg.non_blocking_failures)
    IN [partition |-> agg, status |-> st, decision |-> d,
        stage_result |-> StageResult(st = "PASS", TRUE, d, None)]

\* AranaStage.execute on a context with the given meta
AranaExecute(m) ==
    LET vs == MetaGet(m, "verdicts", <<>>)
        agg == aggregate_verdicts(vs)
        st == apply_precedence(agg.blocking_failures)
        d == Decision(st, agg.blocking_failures, agg.non_blocking_failures, vs)
    IN [partition |-> agg, status |-> st, decision |-> d,
        stage_result |-> StageResult(st = "PASS", TRUE, d, None)]

\* ------------------------------------------- kernel: the inputs
\* The contexts the caller hands to execute.
Contexts ==
    { PipelineContext("doc-12345", "test-norm-v1", None, "test-run-001",
                      [test |-> TRUE, env |-> "integration"]),
      PipelineContext("doc-12345", "test-norm-v1", None, "test-run-002",
                      [test |-> FALSE, env |-> "integration"]) }

\* Stage functions: the set of StageResults a call fn(context) can return.
\* The first five are the dummy stages of the integration test; by_context
\* is a pure function that reads the context; impure is a function whose
\* result is not determined by the context.
StageFn(fn, ctx) ==
    CASE fn = "stage_a_success" ->
           {StageResult(TRUE, FALSE, "a", None)}
      [] fn = "stage_b_success" ->
           {StageResult(TRUE, TRUE, "b", None)}
      [] fn = "stage_blocking_failure" ->
           {StageResult(FALSE, TRUE, None, "Intentional blocking failure")}
      [] fn = "stage_nonblocking_failure" ->
           {StageResult(FALSE, FALSE, None, "Intentional non-blocking failure")}
      [] fn = "stage_by_context" ->
           {StageResult(ctx.meta.test, TRUE, ctx.run_id,
                        IF ctx.meta.test THEN None ELSE "rejected")}
      [] fn = "stage_impure" ->
           {StageResult(TRUE, FALSE, "x", None),
            StageResult(FALSE, TRUE, "y", "flaky")}
      [] fn = "AranaStage.execute" ->
           {AranaExecute(ctx.meta).stage_result}

Deterministic(fn) == fn # "stage_impure"

\* The stage definitions a pipeline is built from: the declared blocking
\* flag agrees with the returned one in some and disagrees in others.
StagePool ==
    { StageDefinition("STAGE_A", FALSE, "stage_a_success"),
      StageDefinition("STAGE_B", FALSE, "stage_b_success"),
      StageDefinition("STAGE_B", TRUE,  "stage_blocking_failure"),
      StageDefinition("STAGE_C", FALSE, "stage_blocking_failure"),
      StageDefinition("STAGE_A", TRUE,  "stage_nonblocking_failure"),
      StageDefinition("STAGE_C", FALSE, "stage_by_context"),
      StageDefinition("STAGE_C", TRUE,  "stage_impure") }

\* --------------------------------------------- kernel: Pipeline.execute

\* a bug: the list of the previous run is kept
ResetResults_Keep(rs) == rs

\* self._results = []
ResetResults(rs) == <<>>

\* a bug: the result is put in front
RegisterResult_Prepend(rs, r) == <<r>> \o rs

\* self._results.append(result)
RegisterResult(rs, r) == Append(rs, r)

\* a bug: the declared flag of the definition decides
IsBlockingFailure_Declared(stage_def, r) == ~r.ok /\ stage_def.blocking

\* a bug: every failure halts
IsBlockingFailure_AnyFailure(stage_def, r) == ~r.ok

\* if not result.ok and result.blocking
IsBlockingFailure(stage_def, r) == ~r.ok /\ r.blocking

\* class BlockingStageError(Exception)
BlockingStageError(stage_name, reason, details) ==
    [exc |-> "BlockingStageError", stage_name |-> stage_name, reason |-> reason,
     details |-> details]

\* class NonBlockingStageError(Exception)
NonBlockingStageError(stage_name, reason, details) ==
    [exc |-> "NonBlockingStageError", stage_name |-> stage_name, reason |-> reason,
     details |-> details]

\* no exception in flight
NoError ==
    [exc |-> None, stage_name |-> None, reason |-> None,
     details |-> [error |-> None, output |-> None]]

\* a bug: the enum member's name instead of its value
RaiseBlocking_MemberName(stage_def, r) ==
    BlockingStageError(stage_def.name,
                       "Stage failed with blocking=True",
                       [error |-> r.error, output |-> r.output])

\* the raise statement of execute
RaiseBlocking(stage_def, r) ==
    BlockingStageError(StageName[stage_def.name],
                       "Stage failed with blocking=True",
                       [error |-> r.error, output |-> r.output])

\* a bug: a non-blocking failure raises the non-blocking error
Raises_NonBlocking(stage_def, r) ==
    IF IsBlockingFailure(stage_def, r) THEN RaiseBlocking(stage_def, r)
    ELSE IF ~r.ok
         THEN NonBlockingStageError(StageName[stage_def.name],
                                    "Stage failed with blocking=False",
                                    [error |-> r.error, output |-> r.output])
         ELSE NoError

\* what the check after the append raises: an exception, or nothing
Raises(stage_def, r) ==
    IF IsBlockingFailure(stage_def, r) THEN RaiseBlocking(stage_def, r) ELSE NoError

\* a bug: a call after a halt resumes behind the failed stage
LoopStart_Resume(i) == IF i >= 1 THEN i + 1 ELSE 1

\* for stage_def in self.stages: where the loop starts, given where the
\* previous call stopped
LoopStart(i) == 1

\* a local variable that is not bound yet
Unbound == StageResult(FALSE, FALSE, None, "unbound")

\* the caller has not been handed a list
NoList == [given |-> FALSE, list |-> <<>>]
AList(l) == [given |-> TRUE, list |-> l]

\* Pipeline.results: a copy of the retained list
Results(rs) == AList(rs)

Finished == pc \in {"idle", "returned", "raised"}

\* execute is called: line 49, and the for loop is entered.
Execute(ctx) ==
    /\ Finished
    /\ runs < MaxRuns
    /\ runs' = runs + 1
    /\ context' = ctx
    /\ prev' = IF pc = "idle" THEN prev
               ELSE [prev EXCEPT ![context] = [results |-> _results, outcome |-> pc]]
    /\ _results' = ResetResults(_results)
    /\ idx' = LoopStart(idx)
    /\ result' = Unbound
    /\ raised' = NoError
    /\ returned' = NoList
    /\ got' = NoList
    /\ invoked' = <<>>
    /\ pc' = "loop"
    /\ UNCHANGED <<stages, arana_vars, ext_vars>>

\* result = stage_def.fn(context)
InvokeStage ==
    /\ pc = "loop"
    /\ idx <= Len(stages)
    /\ \E r \in StageFn(stages[idx].fn, context) :
         /\ result' = r
         /\ invoked' = Append(invoked, [stage |-> idx, seen |-> _results, result |-> r])
    /\ pc' = "called"
    /\ UNCHANGED <<stages, context, _results, idx, raised, returned, got, runs,
                   prev, arana_vars, ext_vars>>

\* the rest of the loop body: append, then raise or go on to the next stage
RecordStage ==
    /\ pc = "called"
    /\ _results' = RegisterResult(_results, result)
    /\ raised' = Raises(stages[idx], result)
    /\ IF raised'.exc # None
         THEN pc' = "raised" /\ idx' = idx
         ELSE pc' = "loop" /\ idx' = idx + 1
    /\ UNCHANGED <<stages, context, result, returned, got, runs, invoked, prev,
                   arana_vars, ext_vars>>

\* return self._results
Return ==
    /\ pc = "loop"
    /\ idx > Len(stages)
    /\ returned' = AList(_results)
    /\ pc' = "returned"
    /\ UNCHANGED <<stages, context, _results, idx, result, raised, got, runs,
                   invoked, prev, arana_vars, ext_vars>>

\* the caller reads Pipeline.results between two execute calls
ReadResults ==
    /\ Finished
    /\ ~got.given
    /\ got' = Results(_results)
    /\ UNCHANGED <<stages, context, _results, pc, idx, result, raised, returned,
                   runs, invoked, prev, arana_vars, ext_vars>>

NoRun == [results |-> <<>>, outcome |-> "idle"]

\* Pipeline.__init__
KernelInit ==
    /\ stages \in BoundedSeq(StagePool, MaxStages)
    /\ context = None
    /\ _results = <<>>
    /\ pc = "idle"
    /\ idx = 0
    /\ result = Unbound
    /\ raised = NoError
    /\ returned = NoList
    /\ got = NoList
    /\ runs = 0
    /\ invoked = <<>>
    /\ prev = [c \in Contexts |-> NoRun]

AranaIdle ==
    /\ a_meta = {}
    /\ a_pc = "off"
    /\ partition = <<>>
    /\ status = None
    /\ decision = <<>>
    /\ stage_result = <<>>

Init ==
    /\ KernelInit /\ AranaIdle
    /\ HashIdle /\ ModelIdle /\ ContextIdle /\ ConcIdle /\ LayoutIdle

Next ==
    \/ \E ctx \in Contexts : Execute(ctx)
    \/ InvokeStage
    \/ RecordStage
    \/ Return
    \/ ReadResults

Spec == Init /\ [][Next]_vars

\* ------------------------------------------- decision engine: the steps

\* the verdict list the caller holds
Supplied == MetaGet(a_meta, "verdicts", <<>>)

\* the stage runs on the verdicts of the context
AranaStageExecute ==
    /\ a_pc = "ready"
    /\ LET out == AranaExecute(a_meta) IN
         /\ partition' = out.partition
         /\ status' = out.status
         /\ decision' = out.decision
         /\ stage_result' = out.stage_result
    /\ a_pc' = "executed"
    /\ UNCHANGED <<a_meta, kernel_vars, ext_vars>>

\* any caller constructs a Decision itself: __post_init__ checks nothing, so
\* every combination of arguments yields a record
ConstructDecision(st, k) ==
    /\ a_pc = "ready"
    /\ k <= Len(Supplied)
    /\ decision' = Decision(st, SubSeq(Supplied, 1, k),
                            SubSeq(Supplied, k + 1, Len(Supplied)), Supplied)
    /\ a_pc' = "constructed"
    /\ UNCHANGED <<a_meta, partition, status, stage_result, kernel_vars, ext_vars>>

KernelIdle ==
    /\ stages = <<>>
    /\ context = None
    /\ _results = <<>>
    /\ pc = "off"
    /\ idx = 0
    /\ result = Unbound
    /\ raised = NoError
    /\ returned = NoList
    /\ got = NoList
    /\ runs = 0
    /\ invoked = <<>>
    /\ prev = [c \in Contexts |-> NoRun]

AranaInit ==
    /\ a_meta \in {{}} \cup {{<<"verdicts", vs>>} : vs \in BoundedSeq(VerdictPool, MaxVerdicts)}
    /\ a_pc = "ready"
    /\ partition = EmptyLists
    /\ status = None
    /\ decision = NoDecision
    /\ stage_result = StageResult(FALSE, FALSE, NoDecision, None)

InitArana ==
    /\ KernelIdle /\ AranaInit
    /\ HashIdle /\ ModelIdle /\ ContextIdle /\ ConcIdle /\ LayoutIdle

NextArana ==
    \/ AranaStageExecute
    \/ \E st \in VerdictResults, k \in 0..MaxVerdicts : ConstructDecision(st, k)

SpecArana == InitArana /\ [][NextArana]_vars

\* --------------------------------------- decision engine: the properties

Executed == a_pc = "executed"

IsBlockingFail(v) == v.result = "FAIL" /\ v.severity = "error"

\* C8: the status the decision stage computes is FAIL if and only if the
\* verdict list holds a verdict with result FAIL and severity "error";
\* other failures and passes leave it PASS, and so does an empty list.
C8_PrecedenceLaw ==
    Executed =>
        /\ status \in {"PASS", "FAIL"}
        /\ status = "FAIL" <=> \E k \in 1..Len(Supplied) : IsBlockingFail(Supplied[k])
        /\ decision.status = status
        /\ Supplied = <<>> => status = "PASS"

\* a list with failures of severity warning and critical and a PASS of
\* severity error was decided PASS
C8_Witness ==
    /\ Executed
    /\ status = "PASS"
    /\ \E i, j, k \in 1..Len(Supplied) :
          /\ Supplied[i].result = "FAIL" /\ Supplied[i].severity = "warning"
          /\ Supplied[j].result = "FAIL" /\ Supplied[j].severity = "critical"
          /\ Supplied[k].result = "PASS" /\ Supplied[k].severity = "error"

IsFail(v) == v.result = "FAIL"
IsError(v) == v.severity = "error"
BlockingFail(v) == IsFail(v) /\ IsError(v)
NonBlockingFail(v) == IsFail(v) /\ ~IsError(v)
BlockingPass(v) == ~IsFail(v) /\ IsError(v)
NonBlockingPass(v) == ~IsFail(v) /\ ~IsError(v)

C10_AggregatePartitions ==
    Executed =>
        /\ partition.blocking_failures = SelectSeq(Supplied, BlockingFail)
        /\ partition.non_blocking_failures = SelectSeq(Supplied, NonBlockingFail)
        /\ partition.blocking_passes = SelectSeq(Supplied, BlockingPass)
        /\ partition.non_blocking_passes = SelectSeq(Supplied, NonBlockingPass)
        /\ Len(partition.blocking_failures) + Len(partition.non_blocking_failures)
             + Len(partition.blocking_passes) + Len(partition.non_blocking_passes)
             = Len(Supplied)

\* [FAIL(error), FAIL(warning)]: one blocking and one non-blocking failure
C10_Witness ==
    /\ Executed
    /\ Len(Supplied) = 2
    /\ Supplied[1].result = "FAIL" /\ Supplied[1].severity = "error"
    /\ Supplied[2].result = "FAIL" /\ Supplied[2].severity = "warning"
    /\ Len(partition.blocking_failures) = 1
    /\ Len(partition.non_blocking_failures) = 1

\* ------------------------------------------------- kernel: the properties

\* the result is a blocking failure
BF(r) == ~r.ok /\ r.blocking

\* the results the stage functions returned in this run, in call order
ReturnedByStages == [k \in 1..Len(invoked) |-> invoked[k].result]

Halted == pc = "raised"
Completed == pc = "returned"

\* C1: execute halts at the first stage, in declared order, whose result
\* has ok=false and blocking=true: the blocking-stage error is raised at
\* that stage and no stage declared after it is invoked in that run.
C1_HaltsAtFirstBlockingFailure ==
    \A k \in 1..Len(invoked) :
        BF(invoked[k].result) =>
            /\ invoked[k].stage = k
            /\ \A j \in 1..(k - 1) : ~BF(invoked[j].result)
            /\ Len(invoked) = k
            /\ idx = k
            /\ pc \in {"called", "raised"}
            /\ pc = "raised" =>
                  /\ raised.exc = "BlockingStageError"
                  /\ raised.stage_name = StageName[stages[k].name]

\* [S_ok, S_blocking_fail, S_ok] has halted: two stage functions were called
C1_Witness ==
    /\ Halted
    /\ Len(stages) = 3
    /\ stages[1].fn = "stage_a_success"
    /\ stages[2].fn = "stage_blocking_failure"
    /\ stages[3].fn = "stage_a_success"
    /\ Len(invoked) = 2

C4_SequentialInDeclaredOrder ==
    /\ \A k \in 1..Len(invoked) :
          /\ invoked[k].stage = k
          /\ invoked[k].result \in StageFn(stages[k].fn, context)
          /\ invoked[k].seen = [j \in 1..(k - 1) |-> invoked[j].result]
    /\ Completed =>
          /\ Len(returned.list) = Len(invoked)
          /\ \A k \in 1..Len(invoked) : returned.list[k] = invoked[k].result

\* three stages with three different results have completed
C4_Witness ==
    /\ Completed
    /\ Len(returned.list) = 3
    /\ Cardinality({returned.list[k] : k \in 1..3}) = 3

\* C5: after a halt at the k-th stage, the retained list (as read through
\* Pipeline.results) holds the results of stages 1..k of this run in
\* declared order, the last one the failing result, and nothing else.
C5_RetainedListOnHalt ==
    Halted =>
        /\ Len(invoked) = idx
        /\ _results = ReturnedByStages
        /\ BF(_results[idx])
        /\ got.given => got.list = ReturnedByStages

\* a run that follows a run which left results has halted at its second
\* stage, and the caller read the results
C5_Witness ==
    /\ Halted
    /\ runs >= 2
    /\ idx = 2
    /\ got.given
    /\ \E c \in Contexts : Len(prev[c].results) >= 2

\* C6: the error raised on a halt carries the declared name (the enum's
\* value) of the stage that returned the blocking failure, the fixed
\* reason, and the error and output of that stage's own result.
C6_BlockingErrorPayload ==
    Halted =>
        /\ raised.exc = "BlockingStageError"
        /\ raised.stage_name \in {"stage_a", "stage_b", "stage_c"}
        /\ raised.stage_name = StageName[stages[Len(invoked)].name]
        /\ raised.reason = "Stage failed with blocking=True"
        /\ raised.details = [error |-> invoked[Len(invoked)].result.error,
                             output |-> invoked[Len(invoked)].result.output]

\* the halt came at a second stage whose name, error and output all differ
\* from the first stage's
C6_Witness ==
    /\ Halted
    /\ Len(invoked) = 2
    /\ stages[1].name # stages[2].name
    /\ invoked[1].result.error # invoked[2].result.error
    /\ invoked[1].result.output # invoked[2].result.output

AllDeterministic == \A k \in 1..Len(stages) : Deterministic(stages[k].fn)

\* C7: with stage functions that are deterministic in the context, every
\* execute call starts at the first stage with an empty list, and a call
\* with the context of an earlier call ends as that call did, with the
\* identical result list, whether the earlier call completed or halted.
C7_RerunReproduces ==
    /\ Len(invoked) >= 1 => (invoked[1].stage = 1 /\ invoked[1].seen = <<>>)
    /\ (pc = "loop" /\ invoked = <<>>) => (_results = <<>> /\ idx = 1)
    /\ (AllDeterministic /\ pc \in {"returned", "raised"}
          /\ prev[context].outcome # "idle") =>
          /\ pc = prev[context].outcome
          /\ _results = prev[context].results

\* the third call repeats the context of the first, which halted, after a
\* call with another context that completed
C7_Witness ==
    /\ AllDeterministic
    /\ Halted
    /\ runs = 3
    /\ prev[context].outcome = "raised"
    /\ \E c \in Contexts : c # context /\ prev[c].outcome = "returned"

\* ------------------------------------------------- hasher: the values

\* The Python values hash_json is given. Every value is a node of one
\* shape: its type, its text (primitives) and its children (containers).
JNode(type, text, children) == [t |-> type, s |-> text, xs |-> children]
JStr(x) == JNode("str", x, <<>>)
\* an int, held as its decimal numeral; a float, held as its repr
JInt(n) == JNode("int", n, <<>>)
JFloat(repr) == JNode("float", repr, <<>>)
JNone == JNode("none", "None", <<>>)
JList(ys) == JNode("list", "", ys)
JTuple(ys) == JNode("tuple", "", ys)
\* a dict: its items in insertion order, the keys distinct
JItem(k, val) == JNode("item", "", <<k, val>>)
JDict(items) == JNode("dict", "", items)
Key(item) == item.xs[1]
Val(item) == item.xs[2]

MaxItems == 2

\* The strings that get sorted (map keys, evidence ids), in the order of
\* Python's str comparison.
StrOrder ==
    <<"1", "a", "all_verdicts", "blocking_failures", "code", "condition",
      "confidence", "consequent", "description", "document_hash",
      "document_name", "ev_001", "ev_002", "ev_003", "evidence_field",
      "evidence_ids", "extracted_fields", "extracted_value",
      "extraction_timestamp", "extraction_version", "field_path",
      "logic_type", "non_blocking_failures", "reasoning", "result",
      "rule_id", "severity", "snapshot_id", "source_context", "status",
      "title", "value_type", "version">>

\* position of x in the ascending sequence order
Rank(x, order) == CHOOSE i \in 1..Len(order) : order[i] = x

\* a bug: no sorting
Sorted_Unsorted(xs, order) == xs

\* sorted(xs), for xs drawn from the values listed ascending in order
Sorted(xs, order) ==
    LET n == Len(xs)
        \* number of elements that come before position i in the result
        before(i) == Cardinality({j \in 1..n :
                        \/ Rank(xs[j], order) < Rank(xs[i], order)
                        \/ (Rank(xs[j], order) = Rank(xs[i], order) /\ j < i)})
    IN [p \in 1..n |-> xs[CHOOSE i \in 1..n : before(i) = p - 1]]

\* the integers in use, ascending
IntOrder == <<"1", "2", "3">>

\* the exception json.dumps raises
TypeError == "TypeError"

Quote(x) == "\"" \o x \o "\""

RECURSIVE Join(_, _)
Join(parts, sep) ==
    IF Len(parts) = 0 THEN ""
    ELSE IF Len(parts) = 1 THEN parts[1]
    ELSE parts[1] \o sep \o Join(Tail(parts), sep)

Range(f) == {f[i] : i \in DOMAIN f}

\* the JSON encoder's coercion of a map key to a string
KeyStr(k) ==
    CASE k.t = "str" -> k.s
      [] k.t = "int" -> k.s
      [] k.t = "float" -> k.s
      [] k.t = "none" -> "null"

\* sorted(dct.items()): str keys compare as strings, int keys as numbers,
\* and comparing a str with an int raises TypeError
KeysComparable(items) ==
    \A i, j \in 1..Len(items) : Key(items[i]).t = Key(items[j]).t

SortItems(items) ==
    LET n == Len(items)
        rank(i) == IF Key(items[i]).t = "int" THEN Rank(Key(items[i]).s, IntOrder)
                   ELSE Rank(Key(items[i]).s, StrOrder)
        before(i) == Cardinality({j \in 1..n : rank(j) < rank(i)})
    IN [p \in 1..n |-> items[CHOOSE i \in 1..n : before(i) = p - 1]]

\* json.dumps(obj, sort_keys=True, separators=(',', ':'))
RECURSIVE JDumps(_)
JDumps(x) ==
    CASE x.t = "str" -> Quote(x.s)
      [] x.t = "int" -> x.s
      [] x.t = "float" -> x.s
      [] x.t = "none" -> "null"
      [] x.t \in {"list", "tuple"} ->
           LET parts == [i \in 1..Len(x.xs) |-> JDumps(x.xs[i])]
           IN IF TypeError \in Range(parts) THEN TypeError
              ELSE "[" \o Join(parts, ",") \o "]"
      [] x.t = "dict" ->
           IF ~KeysComparable(x.xs) THEN TypeError
           ELSE LET items == SortItems(x.xs)
                    vals == [i \in 1..Len(items) |-> JDumps(Val(items[i]))]
                    parts == [i \in 1..Len(items) |->
                                Quote(KeyStr(Key(items[i]))) \o ":" \o vals[i]]
                IN IF TypeError \in Range(vals) THEN TypeError
                   ELSE "{" \o Join(parts, ",") \o "}"

\* hashlib.sha256(data).hexdigest(): the digest stands for the bytes it was
\* computed from (SHA-256 is taken to be collision-free)
hash_bytes(data) == "sha256(" \o data \o ")"

\* hash_json: the exception of json.dumps propagates
hash_json(obj) ==
    LET json_str == JDumps(obj)
    IN IF json_str = TypeError THEN TypeError ELSE hash_bytes(json_str)

\* the structure of a value: a list and a tuple are both ordered sequences
Structure(x) == IF x.t = "tuple" THEN "list" ELSE x.t

\* structural equality of two values: the same structure, with equal
\* primitives, equal elements in order, equal values under equal keys
RECURSIVE StructEq(_, _)
StructEq(x, y) ==
    IF Structure(x) # Structure(y) THEN FALSE
    ELSE CASE x.t \in {"str", "int", "float", "none"} -> x.s = y.s
           [] x.t \in {"list", "tuple"} ->
                /\ Len(x.xs) = Len(y.xs)
                /\ \A i \in 1..Len(x.xs) : StructEq(x.xs[i], y.xs[i])
           [] x.t = "dict" ->
                /\ Len(x.xs) = Len(y.xs)
                /\ \A i \in 1..Len(x.xs) : \E j \in 1..Len(y.xs) :
                      /\ Key(x.xs[i]) = Key(y.xs[j])
                      /\ StructEq(Val(x.xs[i]), Val(y.xs[j]))

\* The values handed to hash_json: primitives, sequences of primitives and
\* maps from primitive keys to primitives or sequences.
HashInputs ==
    LET Prims == {JStr("a"), JStr("1"), JInt("1")}
        Seqs == {JList(xs) : xs \in BoundedSeq(Prims, MaxItems)}
                  \cup {JTuple(xs) : xs \in BoundedSeq(Prims, MaxItems)}
        MapValues == Prims \cup {JList(<<JInt("1")>>)}
        Items == {JItem(k, val) : k \in Prims, val \in MapValues}
        Maps == {JDict(items) : items \in
                    {it \in BoundedSeq(Items, MaxItems) :
                        \A i, j \in 1..Len(it) : i # j => Key(it[i]) # Key(it[j])}}
    IN Prims \cup Seqs \cup Maps

\* ------------------------------------------------- hasher: the steps

HashInit ==
    /\ h_a \in HashInputs
    /\ h_b \in HashInputs
    /\ h_da = None
    /\ h_db = None
    /\ h_pc = "ready"

\* the caller hashes both values
HashBoth ==
    /\ h_pc = "ready"
    /\ h_da' = hash_json(h_a)
    /\ h_db' = hash_json(h_b)
    /\ h_pc' = "hashed"
    /\ UNCHANGED <<h_a, h_b, kernel_vars, arana_vars, model_vars, context_vars,
                   conc_vars, layout_vars>>

\* the caller hashes the first value once more
HashAgain ==
    /\ h_pc = "hashed"
    /\ h_db' = hash_json(h_a)
    /\ h_b' = h_a
    /\ h_pc' = "rehashed"
    /\ UNCHANGED <<h_a, h_da, kernel_vars, arana_vars, model_vars, context_vars,
                   conc_vars, layout_vars>>

InitHash ==
    /\ KernelIdle /\ AranaIdle
    /\ HashInit /\ ModelIdle /\ ContextIdle /\ ConcIdle /\ LayoutIdle

NextHash == HashBoth \/ HashAgain

SpecHash == InitHash /\ [][NextHash]_vars

\* --------------------------------------------- hasher: the properties

Hashed == h_pc \in {"hashed", "rehashed"} /\ h_da # TypeError /\ h_db # TypeError

\* C12: hash_json depends only on the structure of its input: equal values
\* give the same digest whatever the insertion order of their keys, and
\* distinct values give different digests.
C12_DigestIffStructurallyEqual ==
    Hashed => (h_da = h_db <=> StructEq(h_a, h_b))

\* the part of C12 that holds: structurally equal values hash alike
C12_EqualValuesHashAlike ==
    Hashed => (StructEq(h_a, h_b) => h_da = h_db)

\* ====================================================== domain records
\* A record object is a node: its class, its identity field (rule_id,
\* snapshot_id, evidence_id, verdict_id, decision_hash) and its content
\* fields, one item per field in the order of declaration.
Field(name, value) == JItem(JStr(name), value)
Attr(self, name) ==
    Val(self.xs[CHOOSE i \in 1..Len(self.xs) : Key(self.xs[i]) = JStr(name)])
Item(self, name) == Field(name, Attr(self, name))

\* the texts of the elements of a list: the strings of a list of str, the
\* verdict_id of each Verdict of a list of Verdict
Texts(list) == [i \in 1..Len(list.xs) |-> list.xs[i].s]
StrList(texts) == JList([i \in 1..Len(texts) |-> JStr(texts[i])])

rule_dict(self) ==
    JDict(<<Item(self, "code"), Item(self, "version"), Item(self, "description"),
            Item(self, "logic_type"), Item(self, "condition"),
            Item(self, "consequent"), Item(self, "evidence_field"),
            Item(self, "severity")>>)

snapshot_dict(self) ==
    JDict(<<Item(self, "document_name"), Item(self, "document_hash"),
            Item(self, "extracted_fields"), Item(self, "extraction_timestamp"),
            Item(self, "extraction_version")>>)

evidence_dict(self) ==
    JDict(<<Item(self, "field_path"), Item(self, "extracted_value"),
            Item(self, "value_type"), Item(self, "confidence"),
            Item(self, "source_context")>>)

verdict_dict(self) ==
    JDict(<<Item(self, "rule_id"), Item(self, "snapshot_id"), Item(self, "result"),
            Field("evidence_ids",
                  StrList(Sorted(Texts(Attr(self, "evidence_ids")), StrOrder))),
            Item(self, "reasoning"), Item(self, "severity")>>)

\* order: the digests in play, ascending as Python compares the hex strings
decision_dict(self, order) ==
    LET sorted_blocking == Sorted(Texts(Attr(self, "blocking_failures")), order)
        sorted_non_blocking == Sorted(Texts(Attr(self, "non_blocking_failures")), order)
        sorted_all == Sorted(Texts(Attr(self, "all_verdicts")), order)
    IN JDict(<<Item(self, "status"),
               Field("blocking_failures", StrList(sorted_blocking)),
               Field("non_blocking_failures", StrList(sorted_non_blocking)),
               Field("all_verdicts", StrList(sorted_all))>>)

\* __post_init__ of each class: the identity computed from the fields
post_init(self, order) ==
    CASE self.t = "Rule" -> hash_json(rule_dict(self))
      [] self.t = "Snapshot" -> hash_json(snapshot_dict(self))
      [] self.t = "Evidence" -> hash_json(evidence_dict(self))
      [] self.t = "Verdict" -> hash_json(verdict_dict(self))
      [] self.t = "Decision" -> hash_json(decision_dict(self, order))

\* the constructor of a class: the fields are stored as given, then
\* __post_init__ sets the identity field
New(class, fields, order) ==
    JNode(class, post_init(JNode(class, "", fields), order), fields)

\* __eq__ of Rule, Snapshot, Evidence and Verdict: by the identity field
IdentityEq(a, b) == a.t = b.t /\ a.s = b.s

\* == of two lists of Verdict: element by element, with Verdict.__eq__
VerdictListEq(xs, ys) ==
    /\ Len(xs.xs) = Len(ys.xs)
    /\ \A i \in 1..Len(xs.xs) : IdentityEq(xs.xs[i], ys.xs[i])

\* __eq__ of Decision: the one @dataclass generates, the tuples of all
\* fields compared
DataclassEq(a, b) ==
    /\ a.t = b.t
    /\ Attr(a, "status") = Attr(b, "status")
    /\ VerdictListEq(Attr(a, "blocking_failures"), Attr(b, "blocking_failures"))
    /\ VerdictListEq(Attr(a, "non_blocking_failures"), Attr(b, "non_blocking_failures"))
    /\ VerdictListEq(Attr(a, "all_verdicts"), Attr(b, "all_verdicts"))
    /\ a.s = b.s

\* a == b
Eq(a, b) == IF a.t = "Decision" THEN DataclassEq(a, b) ELSE IdentityEq(a, b)

\* fields with one attribute replaced
WithAttr(fields, name, value) ==
    [i \in 1..Len(fields) |->
        IF Key(fields[i]) = JStr(name) THEN Field(name, value) ELSE fields[i]]

\* ------------------------------------------- domain records: the inputs
\* What a caller passes to each constructor: one base content per class and
\* the contents that differ from it in one field.








\* the base content of a class: its fields in the order of declaration
Base(class) ==
    CASE class = "Rule" ->
           <<Field("code", JStr("APA7_TITLE_FORMAT")), Field("version", JStr("1.0.0")),
            Field("description", JStr("Title format")), Field("logic_type", JStr("binary")),
            Field("consequent", JStr("PASS")), Field("evidence_field", JStr("title")),
            Field("severity", JStr("error")), Field("condition", JNone)>>
      [] class = "Snapshot" ->
           <<Field("document_name", JStr("thesis.docx")), Field("document_hash", JStr("abc")),
            Field("extracted_fields", JDict(<<Field("title", JStr("a"))>>)),
            Field("extraction_timestamp", JStr("2026-01-01T00:00:00Z")),
            Field("extraction_version", JStr("1.0.0"))>>
      [] class = "Evidence" ->
           <<Field("field_path", JStr("title")), Field("extracted_value", JStr("a")),
            Field("value_type", JStr("string")), Field("confidence", JFloat("0.9")),
            Field("source_context", JNone)>>
      [] class = "Verdict" ->
           <<Field("rule_id", JStr("rule_001")), Field("snapshot_id", JStr("snap_001")),
            Field("result", JStr("PASS")),
            Field("evidence_ids", StrList(<<"ev_001", "ev_002">>)),
            Field("reasoning", JStr("because")), Field("severity", JStr("error"))>>

\* the fields a content departs from the base in, and their other values
Alts(class) ==
    CASE class = "Rule" ->
           {<<"code", JStr("APA7_MARGINS")>>, <<"version", JStr("1.0.1")>>,
            <<"description", JStr("Margins")>>, <<"logic_type", JStr("conditional")>>,
            <<"consequent", JStr("FAIL")>>, <<"evidence_field", JStr("margins")>>,
            <<"severity", JStr("warning")>>, <<"severity", JStr("nope")>>,
            <<"condition", JStr("title")>>}
      [] class = "Snapshot" ->
           {<<"document_name", JStr("paper.docx")>>, <<"document_hash", JStr("def")>>,
            <<"extracted_fields", JDict(<<Field("title", JStr("1"))>>)>>,
            <<"extracted_fields",
             JDict(<<Field("title", JDict(<<JItem(JInt("1"), JStr("a"))>>))>>)>>,
            <<"extracted_fields",
             JDict(<<Field("title", JDict(<<JItem(JStr("1"), JStr("a"))>>))>>)>>,
            <<"extraction_timestamp", JStr("2026-01-02T00:00:00Z")>>,
            <<"extraction_version", JStr("1.0.1")>>}
      [] class = "Evidence" ->
           {<<"field_path", JStr("authors")>>, <<"extracted_value", JStr("1")>>,
            <<"value_type", JStr("number")>>, <<"confidence", JFloat("1.0")>>,
            <<"confidence", JInt("1")>>, <<"source_context", JStr("title")>>}
      [] class = "Verdict" ->
           {<<"rule_id", JStr("rule_002")>>, <<"snapshot_id", JStr("snap_002")>>,
            <<"result", JStr("FAIL")>>, <<"result", JStr("MAYBE")>>,
            <<"evidence_ids", StrList(<<"ev_002", "ev_001">>)>>,
            <<"evidence_ids", StrList(<<"ev_001">>)>>,
            <<"evidence_ids", StrList(<<"ev_001", "ev_003">>)>>,
            <<"reasoning", JStr("why")>>,
            <<"severity", JStr("warning")>>, <<"severity", JStr("bogus")>>}

\* the Verdicts a Decision is built from; permuted_1 is verdict_1 built
\* from the permuted evidence_ids
verdict_1 == New("Verdict", Base("Verdict"), <<>>)
permuted_1 ==
    New("Verdict", WithAttr(Base("Verdict"), "evidence_ids", StrList(<<"ev_002", "ev_001">>)), <<>>)
verdict_2 == New("Verdict", WithAttr(Base("Verdict"), "result", JStr("FAIL")), <<>>)
verdict_3 == New("Verdict", WithAttr(Base("Verdict"), "rule_id", JStr("rule_002")), <<>>)

\* the ways the three digests can be ordered
DigestOrders ==
    LET ids == {verdict_1.s, verdict_2.s, verdict_3.s}
    IN {o \in [1..Cardinality(ids) -> ids] : \A i, j \in DOMAIN o : i # j => o[i] # o[j]}

DecisionContents ==
    {<<Field("status", JStr(st)), Field("blocking_failures", JList(bf)),
       Field("non_blocking_failures", JList(nbf)), Field("all_verdicts", JList(all))>> :
        st \in {"PASS", "FAIL", "UNKNOWN"},
        bf \in {<<verdict_1, verdict_2>>, <<verdict_2, permuted_1>>, <<verdict_2>>},
        nbf \in {<<verdict_3, verdict_1>>, <<verdict_1, verdict_3>>},
        all \in {<<verdict_1, verdict_2, verdict_3>>, <<verdict_3, permuted_1, verdict_2>>,
                 <<verdict_1, verdict_2>>}}

Contents(class) ==
    IF class = "Decision" THEN DecisionContents
    ELSE {Base(class)} \cup {WithAttr(Base(class), a[1], a[2]) : a \in Alts(class)}

\* the list or map field of a class, and what a holder of that list or map
\* adds to it in place
Additions ==
    [Verdict |-> <<"evidence_ids", JStr("ev_003")>>,
     Snapshot |-> <<"extracted_fields", Field("a", JStr("a"))>>,
     Decision |-> <<"all_verdicts", verdict_1>>]

FrozenInstanceError == "FrozenInstanceError"

\* ------------------------------------------- domain records: the steps
ModelInit ==
    /\ m_a = JNone /\ m_b = JNone
    /\ m_order \in DigestOrders
    /\ m_pc = "new"
    /\ m_err = None

\* two records of one class are constructed
Construct ==
    /\ m_pc = "new"
    /\ \E class \in {"Rule", "Snapshot", "Evidence", "Verdict", "Decision"} :
          \E fields_a, fields_b \in Contents(class) :
          /\ m_a' = New(class, fields_a, m_order)
          /\ m_b' = New(class, fields_b, m_order)
    /\ m_pc' = "built"
    /\ UNCHANGED <<m_order, m_err, kernel_vars, arana_vars, hash_vars,
                   context_vars, conc_vars, layout_vars>>

\* record.name = value on a frozen dataclass: the generated __setattr__
\* raises FrozenInstanceError, for the identity field too
SetAttr(name, value) ==
    /\ m_pc = "built"
    /\ m_err' = FrozenInstanceError
    /\ m_pc' = "rejected"
    /\ UNCHANGED <<m_a, m_b, m_order, kernel_vars, arana_vars, hash_vars,
                   context_vars, conc_vars, layout_vars>>

\* the list or map a record holds is the object the caller passed in:
\* who holds it ("holder": record.field, "caller": the argument it kept)
\* appends to the list, or sets a key of the map, and nothing is raised
MutateField(who) ==
    /\ m_pc = "built"
    /\ m_a.t \in DOMAIN Additions
    /\ LET name == Additions[m_a.t][1]
           old == Attr(m_a, name)
           new == JNode(old.t, old.s, Append(old.xs, Additions[m_a.t][2]))
       IN m_a' = JNode(m_a.t, m_a.s, WithAttr(m_a.xs, name, new))
    /\ m_pc' = who
    /\ UNCHANGED <<m_b, m_order, m_err, kernel_vars, arana_vars, hash_vars,
                   context_vars, conc_vars, layout_vars>>

InitModels ==
    /\ KernelIdle /\ AranaIdle
    /\ HashIdle /\ ModelInit /\ ContextIdle /\ ConcIdle /\ LayoutIdle

NextModels ==
    \/ Construct
    \/ \E name \in {"result", "severity", "status", "verdict_id"} :
          SetAttr(name, JStr("FAIL"))
    \/ \E who \in {"holder", "caller"} : MutateField(who)

SpecModels == InitModels /\ [][NextModels]_vars

\* --------------------------------------- domain records: the properties
Built == m_pc = "built"

\* ys holds the elements of xs, each as often, in some order
IsPermutation(xs, ys) ==
    /\ Len(xs) = Len(ys)
    /\ \A e \in Range(xs) \cup Range(ys) :
          Cardinality({i \in DOMAIN xs : xs[i] = e})
            = Cardinality({i \in DOMAIN ys : ys[i] = e})

Reordered(a, b, name) == IsPermutation(Texts(Attr(a, name)), Texts(Attr(b, name)))

\* the names of the content fields of a record
FieldNames(self) == {Key(self.xs[i]).s : i \in 1..Len(self.xs)}

\* a and b were built from the same content but for the order of their lists
PermutedInputs(a, b) ==
    /\ a.t = b.t
    /\ a.t \in {"Verdict", "Decision"}
    /\ \A name \in FieldNames(a) :
          IF name \in {"evidence_ids", "blocking_failures",
                       "non_blocking_failures", "all_verdicts"}
          THEN Reordered(a, b, name)
          ELSE Attr(a, name) = Attr(b, name)

\* C11: the decision_hash is the same for every permutation of the verdict
\* lists given to a Decision, and the verdict_id is the same for every
\* permutation of the evidence_ids given to a Verdict.
C11_OrderIndependence ==
    (Built /\ PermutedInputs(m_a, m_b)) => m_a.s = m_b.s

\* two Decisions whose three lists hold the same verdicts in different
\* orders, one of the verdicts itself built from permuted evidence_ids
C11_Witness ==
    /\ Built /\ m_a.t = "Decision" /\ PermutedInputs(m_a, m_b)
    /\ \A name \in {"blocking_failures", "non_blocking_failures", "all_verdicts"} :
          Texts(Attr(m_a, name)) # Texts(Attr(m_b, name))
    /\ \E i \in 1..Len(Attr(m_a, "all_verdicts").xs) :
          \E j \in 1..Len(Attr(m_b, "all_verdicts").xs) :
             LET v == Attr(m_a, "all_verdicts").xs[i]
                 w == Attr(m_b, "all_verdicts").xs[j]
             IN /\ v.s = w.s
                /\ Attr(v, "evidence_ids") # Attr(w, "evidence_ids")
    /\ m_a.s = m_b.s

\* the content of a field: evidence_ids is a set of ids, whatever their order
SameField(a, b, name) ==
    IF name = "evidence_ids" THEN Reordered(a, b, name)
    ELSE StructEq(Attr(a, name), Attr(b, name))

Differing(a, b) == {name \in FieldNames(a) : ~SameField(a, b, name)}

\* C13: two Rules, Snapshots, Evidences or Verdicts that differ in one
\* content field have different identity hashes, and two built from the
\* same content have the same identity hash.
C13_Sensitivity ==
    (Built /\ m_a.t \in {"Rule", "Snapshot", "Evidence", "Verdict"}) =>
        /\ Cardinality(Differing(m_a, m_b)) = 1 => m_a.s # m_b.s
        /\ Differing(m_a, m_b) = {} => m_a.s = m_b.s

\* C14: a record never changes after construction: in every state its
\* identity field is the hash of the content it holds now.
C14_IdentityIsHashOfContent ==
    m_pc # "new" => m_a.s = post_init(m_a, m_order)

\* the enumerations: result and status are PASS or FAIL, a severity is one
\* of the recognized levels
InSet(self, name, allowed) == name \in FieldNames(self) => Attr(self, name).s \in allowed

C16_Levels == {"error", "warning", "info"}

\* C16: no record holding a result, status or severity outside its
\* enumeration is ever constructed.
C16_NoOutOfSetValue ==
    m_pc # "new" =>
        /\ InSet(m_a, "result", {"PASS", "FAIL"})
        /\ InSet(m_a, "status", {"PASS", "FAIL"})
        /\ m_a.t \in {"Rule", "Verdict"} => InSet(m_a, "severity", C16_Levels)

\* C17: two records of one class are equal exactly when their identity
\* fields are, the two Decisions built from permuted verdict lists too.
C17_EqualIffSameIdentity ==
    Built => (Eq(m_a, m_b) <=> m_a.s = m_b.s)

\* ==================================================== PipelineContext
\* The object a caller passes as meta: its Python type and its items.
MetaObject(type, items) == [type |-> type, items |-> items]

\* isinstance(self.meta, Mapping): dict and types.MappingProxyType are
\* Mappings, a list of pairs is not
IsMapping(m) == m.type \in {"dict", "mappingproxy"}

\* meta[key] = value is defined by dict; a mappingproxy raises TypeError
SupportsItemAssignment(m) == m.type = "dict"

NoContext == PipelineContext(None, None, None, None, MetaObject(None, <<>>))

ContextInit ==
    /\ x_ctx = NoContext /\ x_made = NoContext
    /\ x_pc = "new" /\ x_err = None

\* PipelineContext(...): the fields are stored, then __post_init__ raises
\* TypeError unless meta is a Mapping
NewContext ==
    /\ x_pc = "new"
    /\ \E ref \in {"doc-12345", "doc-67890"}, snap \in {None, "snap_001"},
          run \in {"test-run-001", "test-run-002"},
          type \in {"dict", "mappingproxy", "list"},
          items \in [test : BOOLEAN, env : {"integration", "production"}] :
          LET self == PipelineContext(ref, "test-norm-v1", snap, run,
                                      MetaObject(type, items))
          IN IF IsMapping(self.meta)
             THEN /\ x_ctx' = self /\ x_made' = self
                  /\ x_pc' = "made" /\ x_err' = None
             ELSE /\ x_pc' = "rejected" /\ x_err' = TypeError
                  /\ UNCHANGED <<x_ctx, x_made>>
    /\ UNCHANGED <<kernel_vars, arana_vars, hash_vars, model_vars, conc_vars,
                   layout_vars>>

\* context.<field> = value, by a stage or any holder: the frozen dataclass
\* raises FrozenInstanceError
Reassign(name) ==
    /\ x_pc = "made"
    /\ x_err' = FrozenInstanceError
    /\ x_pc' = "frozen"
    /\ UNCHANGED <<x_ctx, x_made, kernel_vars, arana_vars, hash_vars, model_vars,
                   conc_vars, layout_vars>>

\* context.meta[key] = value, by a stage or any holder: done by a dict,
\* refused with TypeError by a mappingproxy
WriteMeta(key, value) ==
    /\ x_pc = "made"
    /\ IF SupportsItemAssignment(x_ctx.meta)
       THEN /\ x_ctx' = [x_ctx EXCEPT !.meta.items[key] = value]
            /\ x_err' = None
       ELSE /\ x_err' = TypeError
            /\ UNCHANGED x_ctx
    /\ x_pc' = "written"
    /\ UNCHANGED <<x_made, kernel_vars, arana_vars, hash_vars, model_vars,
                   conc_vars, layout_vars>>

InitContext ==
    /\ KernelIdle /\ AranaIdle
    /\ HashIdle /\ ModelIdle /\ ContextInit /\ ConcIdle /\ LayoutIdle

NextContext ==
    \/ NewContext
    \/ \E name \in {"document_ref", "normative_context", "facts_snapshot",
                    "run_id", "meta"} : Reassign(name)
    \/ \E value \in {"integration", "production"} : WriteMeta("env", value)
    \/ \E value \in BOOLEAN : WriteMeta("test", value)

SpecContext == InitContext /\ [][NextContext]_vars

\* C15: a PipelineContext never changes once constructed, neither its
\* fields nor the contents of its meta, because only a read-only mapping
\* is accepted as meta.
C15_ContextImmutable ==
    x_pc \in {"made", "frozen", "written"} => x_ctx = x_made

\* the part of C15 that holds: no field of the context is ever reassigned,
\* and a meta that is no Mapping is refused
C15_FieldsFrozen ==
    /\ x_pc \in {"made", "frozen", "written"} =>
          /\ \A name \in {"document_ref", "normative_context", "facts_snapshot", "run_id"} :
                x_ctx[name] = x_made[name]
          /\ x_ctx.meta.type = x_made.meta.type
          /\ IsMapping(x_ctx.meta)
    /\ x_pc = "frozen" => x_err = FrozenInstanceError

\* ==================================== two execute calls on one Pipeline
\* Two callers call execute on the same Pipeline object with the same
\* context, and control passes from one call to the other only while a
\* stage function runs. self._results is a reference to a list object:
\* c_results holds the list objects made so far and the one the attribute
\* refers to now.
MaxSharedStages == 2

Calls == {1, 2}

\* a call of execute: where it is, its loop index, the results its own
\* stages returned, and how it ended
Call(at, i, own, ret, exc) ==
    [pc |-> at, idx |-> i, own |-> own, returned |-> ret, raised |-> exc]

SharedPipelines == {ss \in BoundedSeq(StagePool, MaxSharedStages) : Len(ss) >= 1}

ConcInit ==
    /\ \E ss \in SharedPipelines, ctx \in Contexts :
          c_stages = [stages |-> ss, context |-> ctx]
    /\ c_results = [ref |-> 1, lists |-> <<<<>>>>]
    /\ c_call = [c \in Calls |-> Call("idle", 0, <<>>, NoList, NoError)]

\* the list object self._results refers to
SharedList == c_results.lists[c_results.ref]

\* execute, up to the call of the first stage function: self._results is
\* bound to a new empty list
ConcExecute(c) ==
    /\ c_call[c].pc = "idle"
    /\ c_results' = [ref |-> Len(c_results.lists) + 1,
                     lists |-> Append(c_results.lists, ResetResults(SharedList))]
    /\ c_call' = [c_call EXCEPT ![c] = Call("in_stage", LoopStart(0), <<>>, NoList, NoError)]
    /\ UNCHANGED <<c_stages, kernel_vars, arana_vars, hash_vars, model_vars,
                   context_vars, layout_vars>>

\* the stage function of call c returns: the result is appended to the
\* list self._results refers to now, then the call raises, enters the
\* next stage function, or returns self._results
ConcStageReturns(c) ==
    /\ c_call[c].pc = "in_stage"
    /\ LET me == c_call[c]
           stage_def == c_stages.stages[me.idx]
       IN \E r \in StageFn(stage_def.fn, c_stages.context) :
            LET appended == RegisterResult(SharedList, r)
                exc == Raises(stage_def, r)
                own == Append(me.own, r)
            IN /\ c_results' = [c_results EXCEPT !.lists[c_results.ref] = appended]
               /\ c_call' = [c_call EXCEPT ![c] =
                    IF exc.exc # None
                    THEN Call("raised", me.idx, own, NoList, exc)
                    ELSE IF me.idx < Len(c_stages.stages)
                    THEN Call("in_stage", me.idx + 1, own, NoList, NoError)
                    ELSE Call("returned", me.idx + 1, own, AList(appended), NoError)]
    /\ UNCHANGED <<c_stages, kernel_vars, arana_vars, hash_vars, model_vars,
                   context_vars, layout_vars>>

InitConc ==
    /\ KernelIdle /\ AranaIdle
    /\ HashIdle /\ ModelIdle /\ ContextIdle /\ ConcInit /\ LayoutIdle

NextConc == \E c \in Calls : ConcExecute(c) \/ ConcStageReturns(c)

SpecConc == InitConc /\ [][NextConc]_vars

\* C18: each of two interleaved execute calls that share the Pipeline and
\* the context returns exactly its own stage results, one per stage it
\* executed, in declared order.
C18_EachCallReturnsOwnResults ==
    \A c \in Calls :
        c_call[c].pc = "returned" => c_call[c].returned.list = c_call[c].own

\* what holds of one call alone: a call that runs with no other call
\* under way returns its own results
C18_AloneReturnsOwn ==
    \A c \in Calls :
        (c_call[c].pc = "returned" /\ \A d \in Calls \ {c} : c_call[d].pc = "idle")
            => c_call[c].returned.list = c_call[c].own

\* ======================================================= layout module
\* The values a layout field can hold. A float is an IEEE 754 double,
\* held exactly as milli / 1000 + err * FloatUnit, where FloatUnit is
\* 1 / (1000 * 2^59): milli is the decimal the literal names, in
\* thousandths, and err is what rounding the literal to a double adds.
Value(type, milli, err, text, names) ==
    [type |-> type, milli |-> milli, err |-> err, s |-> text, xs |-> names]

\* float(literal) - literal, in FloatUnit, for the literals in use
RoundingError ==
    (10 :> 120) @@ (750 :> 0) @@ (990 :> -5120) @@ (995 :> -2560) @@ (1000 :> 0)
    @@ (1005 :> -61440) @@ (1010 :> 5120) @@ (1020 :> 10240) @@ (1500 :> 0)
    @@ (2000 :> 0) @@ (11000 :> 0) @@ (12000 :> 0)

\* the double a float literal denotes
Float(milli) == Value("float", milli, RoundingError[milli], "", <<>>)
Str(text) == Value("str", 0, 0, text, <<>>)
Bool(b) == Value("bool", 0, 0, IF b THEN "True" ELSE "False", <<>>)
NoneValue == Value("none", 0, 0, "None", <<>>)
ListOf(names) == Value("list", 0, 0, "", names)
\* a key the mapping does not hold
Missing == Value("missing", 0, 0, "", <<>>)

\* a - b on doubles: exact for the operands in use (they are within a
\* factor of two of each other, or the difference is a double itself)
FloatSub(a, b) == Value("float", a.milli - b.milli, a.err - b.err, "", <<>>)
\* abs(a)
FloatAbs(a) ==
    IF a.milli < 0 \/ (a.milli = 0 /\ a.err < 0)
    THEN Value("float", -a.milli, -a.err, "", <<>>)
    ELSE a
\* a <= b on doubles
FloatLe(a, b) == a.milli < b.milli \/ (a.milli = b.milli /\ a.err <= b.err)
\* a == b on doubles
FloatEq(a, b) == a.milli = b.milli /\ a.err = b.err

\* dataclass Rule of the layout module
LayoutRule(rule_code, description, severity, blocking) ==
    [rule_code |-> rule_code, description |-> description, severity |-> severity,
     blocking |-> blocking]

APA7_LAYOUT_RULES ==
    <<LayoutRule("APA7-MARGIN-TOP", "Top margin must be exactly 1 inch", "critical", TRUE),
      LayoutRule("APA7-MARGIN-BOTTOM", "Bottom margin must be exactly 1 inch", "critical", TRUE),
      LayoutRule("APA7-MARGIN-LEFT", "Left margin must be exactly 1 inch", "critical", TRUE),
      LayoutRule("APA7-MARGIN-RIGHT", "Right margin must be exactly 1 inch", "critical", TRUE),
      LayoutRule("APA7-FONT-VALID",
                 "Font must be Times New Roman, Calibri, Arial, or Georgia", "critical", TRUE),
      LayoutRule("APA7-FONT-SIZE-TNR", "Times New Roman must be 12pt", "critical", TRUE),
      LayoutRule("APA7-FONT-SIZE-CALIBRI", "Calibri must be 11pt", "critical", TRUE),
      LayoutRule("APA7-FONT-SIZE-ARIAL", "Arial must be 11pt", "critical", TRUE),
      LayoutRule("APA7-FONT-SIZE-GEORGIA", "Georgia must be 11pt", "critical", TRUE),
      LayoutRule("APA7-LINE-SPACING", "Line spacing must be double (2.0)", "critical", TRUE),
      LayoutRule("APA7-PAGE-NUMBERING", "Page numbering must be present", "error", TRUE)>>

\* next(r for r in rules if r.rule_code == rule_code)
RuleByCode(rules, rule_code) ==
    rules[CHOOSE i \in 1..Len(rules) :
            /\ rules[i].rule_code = rule_code
            /\ \A j \in 1..(i - 1) : rules[j].rule_code # rule_code]

\* a bug: every font at 12pt
VALID_FONTS_AllTwelve == [name \in {"Times New Roman", "Calibri", "Arial", "Georgia"} |-> Float(12000)]

\* VALID_FONTS: its keys in insertion order, and the size of each
ValidFontNames == <<"Times New Roman", "Calibri", "Arial", "Georgia">>
VALID_FONTS ==
    [name \in Range(ValidFontNames) |->
        IF name = "Times New Roman" THEN Float(12000) ELSE Float(11000)]

REQUIRED_MARGIN == Float(1000)
REQUIRED_LINE_SPACING == Float(2000)
MARGIN_TOLERANCE == Float(10)

\* dataclass LayoutFacts
FactNames ==
    <<"margin_top", "margin_bottom", "margin_left", "margin_right", "font_name",
      "font_size", "line_spacing", "page_numbering">>

LayoutFacts(margin_top, margin_bottom, margin_left, margin_right, font_name, font_size, line_spacing, page_numbering) ==
    [margin_top |-> margin_top, margin_bottom |-> margin_bottom,
     margin_left |-> margin_left, margin_right |-> margin_right,
     font_name |-> font_name, font_size |-> font_size,
     line_spacing |-> line_spacing, page_numbering |-> page_numbering]

NoFacts ==
    LayoutFacts(NoneValue, NoneValue, NoneValue, NoneValue, NoneValue, NoneValue,
                NoneValue, NoneValue)

\* mapping.get(key): None for a key the mapping does not hold
Get(mapping, key) == IF mapping[key].type = "missing" THEN NoneValue ELSE mapping[key]

\* a context: whether it is a mapping, whether it holds "metadata" and that
\* holds "layout", whether those two are mappings, and the layout mapping
LayoutContext(shape, layout) == [shape |-> shape, layout |-> layout]

EmptyLayout == [name \in Range(FactNames) |-> Missing]

\* context.get("metadata", {}).get("layout", {})
LayoutOf(ctx) == IF ctx.shape = "layout" THEN ctx.layout ELSE EmptyLayout

\* extract_layout_facts, for a context that is a mapping
extract_layout_facts(ctx) ==
    LET layout == LayoutOf(ctx)
    IN LayoutFacts(Get(layout, "margin_top"), Get(layout, "margin_bottom"),
                   Get(layout, "margin_left"), Get(layout, "margin_right"),
                   Get(layout, "font_name"), Get(layout, "font_size"),
                   Get(layout, "line_spacing"), Get(layout, "page_numbering"))

\* ------------------------------------------------ layout: the validator
\* dataclass Evidence of the layout module
LayoutEvidence(rule_code, fact_name, expected_value, actual_value, match) ==
    [rule_code |-> rule_code, fact_name |-> fact_name,
     expected_value |-> expected_value, actual_value |-> actual_value,
     match |-> match]

\* dataclass Verdict of the layout module
LayoutVerdict(rule_code, description, res, severity, blocking, evidence) ==
    [rule_code |-> rule_code, description |-> description, result |-> res,
     severity |-> severity, blocking |-> blocking, evidence |-> evidence]

\* a bug: the verdict ignores the comparison
PassOrFail_AlwaysPass(match) == "PASS"

PassOrFail(match) == IF match THEN "PASS" ELSE "FAIL"

\* value - required raises TypeError for a value that is no number
CheckMarginRaises(value) == value.type \notin {"float", "none"}

\* a bug: an absent margin is accepted
CheckMargin_AbsentPasses(value, required, tolerance) ==
    IF value.type = "none" THEN TRUE
    ELSE FloatLe(FloatAbs(FloatSub(value, required)), tolerance)

\* _check_margin, for a value that is None or a float
CheckMargin(value, required, tolerance) ==
    IF value.type = "none" THEN FALSE
    ELSE FloatLe(FloatAbs(FloatSub(value, required)), tolerance)

EvaluateMarginRule(rule, facts, margin_name) ==
    LET actual_value == facts[margin_name]
        match == CheckMargin(actual_value, REQUIRED_MARGIN, MARGIN_TOLERANCE)
        evidence == LayoutEvidence(rule.rule_code, margin_name, REQUIRED_MARGIN,
                                   actual_value, match)
    IN LayoutVerdict(rule.rule_code, rule.description, PassOrFail(match),
                     rule.severity, rule.blocking, <<evidence>>)

rule_code_map ==
    [name \in Range(ValidFontNames) |->
        CASE name = "Times New Roman" -> "APA7-FONT-SIZE-TNR"
          [] name = "Calibri" -> "APA7-FONT-SIZE-CALIBRI"
          [] name = "Arial" -> "APA7-FONT-SIZE-ARIAL"
          [] name = "Georgia" -> "APA7-FONT-SIZE-GEORGIA"]

EvaluateFontRules(rules, facts) ==
    LET font_valid_rule == RuleByCode(rules, "APA7-FONT-VALID")
        font_name == facts.font_name
        font_is_valid == font_name.type = "str" /\ font_name.s \in DOMAIN VALID_FONTS
        evidence_font == LayoutEvidence("APA7-FONT-VALID", "font_name",
                                        ListOf(ValidFontNames), font_name, font_is_valid)
        font_verdict == LayoutVerdict("APA7-FONT-VALID", font_valid_rule.description,
                                      PassOrFail(font_is_valid), font_valid_rule.severity,
                                      font_valid_rule.blocking, <<evidence_font>>)
    IN IF font_is_valid /\ font_name.s # ""
       THEN LET required_size == VALID_FONTS[font_name.s]
                actual_size == facts.font_size
                size_match == IF actual_size.type # "none"
                              THEN actual_size.type = "float" /\ FloatEq(actual_size, required_size)
                              ELSE FALSE
                rule_code == rule_code_map[font_name.s]
                size_rule == RuleByCode(rules, rule_code)
                evidence_size == LayoutEvidence(rule_code, "font_size", required_size,
                                                actual_size, size_match)
            IN <<font_verdict,
                 LayoutVerdict(rule_code, size_rule.description, PassOrFail(size_match),
                               size_rule.severity, size_rule.blocking, <<evidence_size>>)>>
       ELSE <<font_verdict>>

EvaluateLineSpacingRule(rule, facts) ==
    LET actual_value == facts.line_spacing
        match == IF actual_value.type # "none"
                 THEN actual_value.type = "float" /\ FloatEq(actual_value, REQUIRED_LINE_SPACING)
                 ELSE FALSE
        evidence == LayoutEvidence(rule.rule_code, "line_spacing", REQUIRED_LINE_SPACING,
                                   actual_value, match)
    IN LayoutVerdict(rule.rule_code, rule.description, PassOrFail(match),
                     rule.severity, rule.blocking, <<evidence>>)

EvaluatePageNumberingRule(rule, facts) ==
    LET actual_value == facts.page_numbering
        match == actual_value = Bool(TRUE)
        evidence == LayoutEvidence(rule.rule_code, "page_numbering", Bool(TRUE),
                                   actual_value, match)
    IN LayoutVerdict(rule.rule_code, rule.description, PassOrFail(match),
                     rule.severity, rule.blocking, <<evidence>>)

\* a bug: the bottom margin is judged under the top margin's rule
margin_rules_TopTwice ==
    <<<<"APA7-MARGIN-TOP", "margin_top">>, <<"APA7-MARGIN-TOP", "margin_bottom">>,
      <<"APA7-MARGIN-LEFT", "margin_left">>, <<"APA7-MARGIN-RIGHT", "margin_right">>>>

margin_rules ==
    <<<<"APA7-MARGIN-TOP", "margin_top">>, <<"APA7-MARGIN-BOTTOM", "margin_bottom">>,
      <<"APA7-MARGIN-LEFT", "margin_left">>, <<"APA7-MARGIN-RIGHT", "margin_right">>>>

\* validate_apa7_layout raises when a margin is no number
ValidateRaises(facts) ==
    \E i \in 1..Len(margin_rules) : CheckMarginRaises(facts[margin_rules[i][2]])

\* validate_apa7_layout, when nothing is raised
validate_apa7_layout(facts) ==
    [i \in 1..Len(margin_rules) |->
        EvaluateMarginRule(RuleByCode(APA7_LAYOUT_RULES, margin_rules[i][1]), facts,
                           margin_rules[i][2])]
    \o EvaluateFontRules(APA7_LAYOUT_RULES, facts)
    \o <<EvaluateLineSpacingRule(RuleByCode(APA7_LAYOUT_RULES, "APA7-LINE-SPACING"), facts)>>
    \o <<EvaluatePageNumberingRule(RuleByCode(APA7_LAYOUT_RULES, "APA7-PAGE-NUMBERING"), facts)>>

\* Verdict.to_dict
ToDict(self) ==
    [rule_code |-> self.rule_code, description |-> self.description,
     result |-> self.result, severity |-> self.severity, blocking |-> self.blocking,
     evidence |-> [i \in 1..Len(self.evidence) |->
                    LET e == self.evidence[i]
                    IN [rule_code |-> e.rule_code, fact_name |-> e.fact_name,
                        expected_value |-> e.expected_value,
                        actual_value |-> e.actual_value, match |-> e.match]]]

\* [v.to_dict() for v in verdicts]
ToDicts(verdicts) == [i \in 1..Len(verdicts) |-> ToDict(verdicts[i])]

\* compute_verdict_hash: the digest stands for the data it was computed from
compute_verdict_hash(verdicts) == [sha256 |-> ToDicts(verdicts)]

\* ---------------------------------------------------- layout: the stage
\* a bug: ok when some rule passed
AllPassed_Some(verdicts) == \E i \in 1..Len(verdicts) : verdicts[i].result = "PASS"

\* all(v.result == "PASS" for v in verdicts)
AllPassed(verdicts) == \A i \in 1..Len(verdicts) : verdicts[i].result = "PASS"

CountResult(verdicts, res) ==
    Cardinality({i \in 1..Len(verdicts) : verdicts[i].result = res})

\* the result of the except branch
TechnicalError(message) ==
    [ok |-> FALSE, blocking |-> TRUE, output |-> <<>>,
     error |-> "Technical error in APA7 layout validation: " \o message,
     metadata |-> <<>>]

\* the result of the try block
Evaluated(verdicts) ==
    [ok |-> AllPassed(verdicts), blocking |-> TRUE, output |-> ToDicts(verdicts),
     error |-> None,
     metadata |-> [verdict_hash |-> compute_verdict_hash(verdicts),
                   total_rules |-> Len(verdicts),
                   passed_rules |-> CountResult(verdicts, "PASS"),
                   failed_rules |-> CountResult(verdicts, "FAIL")]]

\* no result yet
NoResult == [ok |-> FALSE, blocking |-> FALSE, output |-> <<>>, error |-> None,
             metadata |-> <<>>]

\* the exception the try block raises, None when it reaches its return:
\* .get on a context, a metadata or a layout that is no mapping, and the
\* subtraction on a margin that is no number
TryRaises(ctx) ==
    IF ctx.shape \in {"not_a_mapping", "bad_metadata", "bad_layout"} THEN "AttributeError"
    ELSE IF ValidateRaises(extract_layout_facts(ctx)) THEN "TypeError"
    ELSE None

\* a bug: except TypeError
Catches_TypeErrorOnly(exc) == exc = "TypeError"

\* except Exception
Catches(exc) == exc \in {"AttributeError", "TypeError"}

\* apa7_layout_stage: what it returns, NoResult when the exception leaves it
apa7_layout_stage(ctx) ==
    LET exc == TryRaises(ctx)
    IN IF exc = None THEN Evaluated(validate_apa7_layout(extract_layout_facts(ctx)))
       ELSE IF ~Catches(exc) THEN NoResult
       ELSE IF exc = "AttributeError"
       THEN TechnicalError("'NoneType' object has no attribute 'get'")
       ELSE TechnicalError("unsupported operand type(s) for -: 'str' and 'float'")

\* The layouts a caller supplies: the conformant document of the tests and
\* documents that depart from it, fields left out or set to None included.
Layouts ==
    [margin_top : {Float(1000), Float(750), Float(990), Float(995), Float(1005),
                   Float(1010), Float(1020), NoneValue, Missing, Str("wide")},
     margin_bottom : {Float(1000), Float(995), Missing},
     margin_left : {Float(1000), Float(1010)},
     margin_right : {Float(1000), Float(990)},
     font_name : {Str("Times New Roman"), Str("Calibri"), Str("Arial"), Str("Georgia"),
                  Str("Comic Sans MS"), Missing},
     font_size : {Float(12000), Float(11000), Missing},
     line_spacing : {Float(2000), Float(1500), Missing},
     page_numbering : {Bool(TRUE), Bool(FALSE), Missing}]

LayoutContexts ==
    {LayoutContext("layout", layout) : layout \in Layouts}
      \cup {LayoutContext(shape, EmptyLayout) :
              shape \in {"layout", "no_layout", "no_metadata", "not_a_mapping",
                         "bad_metadata", "bad_layout"}}

LayoutInit ==
    /\ l_context \in LayoutContexts
    /\ l_pc = "ready"
    /\ l_facts = NoFacts
    /\ l_verdicts = <<>>
    /\ l_result = NoResult

\* the stage is called with the context: the facts it extracts, the
\* verdicts it derives and the result it returns
LayoutStage ==
    /\ l_pc = "ready"
    /\ l_result' = apa7_layout_stage(l_context)
    /\ l_facts' = IF TryRaises(l_context) = "AttributeError" THEN NoFacts
                  ELSE extract_layout_facts(l_context)
    /\ l_verdicts' = IF TryRaises(l_context) = None THEN validate_apa7_layout(l_facts')
                     ELSE <<>>
    /\ l_pc' = IF TryRaises(l_context) = None \/ Catches(TryRaises(l_context))
               THEN "done" ELSE "raised"
    /\ UNCHANGED <<l_context, kernel_vars, arana_vars, hash_vars, model_vars,
                   context_vars, conc_vars>>

InitLayout ==
    /\ KernelIdle /\ AranaIdle
    /\ HashIdle /\ ModelIdle /\ ContextIdle /\ ConcIdle /\ LayoutInit

NextLayout == LayoutStage

SpecLayout == InitLayout /\ [][NextLayout]_vars

\* ----------------------------------------------- layout: the properties
LayoutDone == l_pc = "done"

\* rule evaluation ran: no technical error
Evaluation == LayoutDone /\ l_result.error = None

\* the conformant document: margins 1.0, Times New Roman 12pt, spacing 2.0,
\* page numbering present
Conformant ==
    [margin_top |-> Float(1000), margin_bottom |-> Float(1000),
     margin_left |-> Float(1000), margin_right |-> Float(1000),
     font_name |-> Str("Times New Roman"), font_size |-> Float(12000),
     line_spacing |-> Float(2000), page_numbering |-> Bool(TRUE)]

TopMargin075 == [Conformant EXCEPT !.margin_top = Float(750)]

EveryEmittedPasses ==
    \A i \in 1..Len(l_result.output) : l_result.output[i].result = "PASS"

Emitted(rule_code) ==
    {l_result.output[i] : i \in {j \in 1..Len(l_result.output) :
                                    l_result.output[j].rule_code = rule_code}}

\* C19: whenever rule evaluation runs, the stage's ok flag is true exactly
\* when every emitted verdict is PASS, and blocking is true whatever the
\* outcome; the conformant document gives ok with every verdict PASS, and
\* with only margin_top changed to 0.75 it gives ok false, blocking true
\* and the top-margin verdict FAIL.
C19_OkIffEveryVerdictPasses ==
    LayoutDone =>
        /\ l_result.blocking
        /\ Evaluation => (l_result.ok <=> EveryEmittedPasses)
        /\ l_context = LayoutContext("layout", Conformant) =>
              Evaluation /\ l_result.ok /\ EveryEmittedPasses
        /\ l_context = LayoutContext("layout", TopMargin075) =>
              /\ Evaluation /\ ~l_result.ok
              /\ Emitted("APA7-MARGIN-TOP") # {}
              /\ \A v \in Emitted("APA7-MARGIN-TOP") : v.result = "FAIL"

\* the stage has evaluated the document whose top margin alone is wrong
C19_Witness ==
    /\ Evaluation
    /\ l_context = LayoutContext("layout", TopMargin075)
    /\ ~l_result.ok /\ l_result.blocking
    /\ Len(l_result.output) > 1
    /\ \E i \in 1..Len(l_result.output) : l_result.output[i].result = "PASS"

\* |actual - 1.0| <= 0.01 as the decimals the document states
WithinTolerance(value) ==
    /\ value.type = "float"
    /\ value.milli - REQUIRED_MARGIN.milli <= MARGIN_TOLERANCE.milli
    /\ REQUIRED_MARGIN.milli - value.milli <= MARGIN_TOLERANCE.milli

MarginVerdict(i) == l_result.output[i]

\* C20: each margin verdict is PASS exactly when the margin is present
\* and within 0.01 of 1.0, the boundary included: 0.99 and 1.01 pass.
C20_MarginPassIffWithinTolerance ==
    Evaluation =>
        \A i \in 1..Len(margin_rules) :
            MarginVerdict(i).result = "PASS"
                <=> WithinTolerance(l_facts[margin_rules[i][2]])

\* what holds of the margins: an absent margin and one further than 0.01
\* from 1.0 fail, one nearer than 0.01 passes
C20_AwayFromBoundary ==
    Evaluation =>
        \A i \in 1..Len(margin_rules) :
            LET value == l_facts[margin_rules[i][2]]
                far == value.milli - REQUIRED_MARGIN.milli
            IN /\ value.type = "none" => MarginVerdict(i).result = "FAIL"
               /\ (value.type = "float" /\ (far > MARGIN_TOLERANCE.milli
                                            \/ -far > MARGIN_TOLERANCE.milli))
                     => MarginVerdict(i).result = "FAIL"
               /\ (value.type = "float" /\ far < MARGIN_TOLERANCE.milli
                                        /\ -far < MARGIN_TOLERANCE.milli)
                     => MarginVerdict(i).result = "PASS"

\* the result of an ordinary evaluation, passing or failing
OrdinaryShape(r) == r.error = None /\ Len(r.output) > 0

\* the result that reports a technical error
ErrorShape(r) ==
    /\ ~r.ok /\ r.blocking /\ r.output = <<>>
    /\ r.error # None /\ r.error # ""

\* the contexts that are malformed
Malformed ==
    \/ l_context.shape \in {"not_a_mapping", "bad_metadata", "bad_layout"}
    \/ \E name \in {"margin_top", "margin_bottom", "margin_left", "margin_right"} :
          l_context.layout[name].type \notin {"float", "none", "missing"}

\* C21: for every context, malformed ones included, the stage returns a
\* result and raises nothing, and the result has exactly one of two
\* shapes: error None with a non-empty verdict list, or ok false, blocking
\* true, empty output and an error message; a malformed context gives the
\* second.
C21_ResultNeverRaises ==
    l_pc # "ready" =>
        /\ l_pc = "done"
        /\ OrdinaryShape(l_result) # ErrorShape(l_result)
        /\ Malformed => ErrorShape(l_result)

\* the stage has answered a context whose metadata is no mapping
C21_Witness ==
    /\ LayoutDone
    /\ l_context.shape = "bad_metadata"
    /\ ErrorShape(l_result)

\* the layout mapping does not hold the field
Absent(name) == LayoutOf(l_context)[name].type = "missing"

\* the context is well formed: mappings throughout, margins numbers or absent
WellFormed == ~Malformed

\* C22: absent layout data is an ordinary rule failure: when the context
\* has no metadata, no layout, or lacks layout fields, each missing field
\* is extracted as None, every emitted verdict whose fact is None is FAIL,
\* error stays None and ok is false; with an empty layout all emitted
\* verdicts are FAIL.
C22_AbsentDataFails ==
    (l_pc # "ready" /\ WellFormed /\ \E name \in Range(FactNames) : Absent(name)) =>
        /\ LayoutDone
        /\ \A name \in Range(FactNames) : Absent(name) => l_facts[name] = NoneValue
        /\ l_result.error = None /\ ~l_result.ok
        /\ Len(l_result.output) > 0
        /\ \A i \in 1..Len(l_result.output) :
              l_result.output[i].evidence[1].actual_value = NoneValue
                  => l_result.output[i].result = "FAIL"
        /\ (\A name \in Range(FactNames) : Absent(name)) =>
              \A i \in 1..Len(l_result.output) : l_result.output[i].result = "FAIL"

\* the stage has evaluated a layout that lacks the bottom margin and the
\* font size but holds a valid font
C22_Witness ==
    /\ LayoutDone /\ l_context.shape = "layout"
    /\ Absent("margin_bottom") /\ Absent("font_size")
    /\ l_context.layout.font_name = Str("Calibri")
    /\ l_result.error = None /\ ~l_result.ok
    /\ Len(l_result.output) = 8
    /\ l_result.output[2].result = "FAIL" /\ l_result.output[6].result = "FAIL"
    /\ l_result.output[5].result = "PASS"

\* the fonts the claim lists, each with its font-size rule and its size
ListedFonts == {"Times New Roman", "Calibri", "Arial", "Georgia"}

FontIsListed == l_facts.font_name.type = "str" /\ l_facts.font_name.s \in ListedFonts

PairedRule ==
    CASE l_facts.font_name.s = "Times New Roman" -> "APA7-FONT-SIZE-TNR"
      [] l_facts.font_name.s = "Calibri" -> "APA7-FONT-SIZE-CALIBRI"
      [] l_facts.font_name.s = "Arial" -> "APA7-FONT-SIZE-ARIAL"
      [] l_facts.font_name.s = "Georgia" -> "APA7-FONT-SIZE-GEORGIA"

PairedSize == IF l_facts.font_name.s = "Times New Roman" THEN Float(12000) ELSE Float(11000)

\* the rule codes of the verdicts, in the order emitted
RuleCodes == [i \in 1..Len(l_verdicts) |-> l_verdicts[i].rule_code]

\* C26: validate_apa7_layout emits one verdict per evaluated rule and
\* never two with the same rule code: the four margin rules, font
\* validity, line spacing and page numbering always, in that order, and
\* the font-size rule paired with the font exactly when the font is
\* valid; each verdict carries at least one Evidence entry.
C26_OneVerdictPerRule ==
    Evaluation =>
        /\ RuleCodes =
              <<"APA7-MARGIN-TOP", "APA7-MARGIN-BOTTOM", "APA7-MARGIN-LEFT",
                "APA7-MARGIN-RIGHT", "APA7-FONT-VALID">>
              \o (IF FontIsListed THEN <<PairedRule>> ELSE <<>>)
              \o <<"APA7-LINE-SPACING", "APA7-PAGE-NUMBERING">>
        /\ \A i, j \in 1..Len(l_verdicts) :
              i # j => l_verdicts[i].rule_code # l_verdicts[j].rule_code
        /\ \A i \in 1..Len(l_verdicts) : Len(l_verdicts[i].evidence) >= 1
        /\ l_result.output = ToDicts(l_verdicts)

\* the validator has judged an Arial document: eight verdicts, the sixth
\* under Arial's font-size rule
C26_Witness ==
    /\ Evaluation
    /\ l_facts.font_name = Str("Arial") /\ Len(l_verdicts) = 8
    /\ l_verdicts[6].rule_code = "APA7-FONT-SIZE-ARIAL"

\* what each rule compares the fact with
ExpectedOf(rule_code) ==
    CASE rule_code \in {"APA7-MARGIN-TOP", "APA7-MARGIN-BOTTOM", "APA7-MARGIN-LEFT",
                        "APA7-MARGIN-RIGHT"} -> Float(1000)
      [] rule_code = "APA7-FONT-VALID" ->
            ListOf(<<"Times New Roman", "Calibri", "Arial", "Georgia">>)
      [] rule_code = "APA7-FONT-SIZE-TNR" -> Float(12000)
      [] rule_code \in {"APA7-FONT-SIZE-CALIBRI", "APA7-FONT-SIZE-ARIAL",
                        "APA7-FONT-SIZE-GEORGIA"} -> Float(11000)
      [] rule_code = "APA7-LINE-SPACING" -> Float(2000)
      [] rule_code = "APA7-PAGE-NUMBERING" -> Bool(TRUE)

\* C27: in every verdict the layout module emits, result is PASS exactly
\* when the match flag of its evidence is true, and the evidence records
\* the expected value and the extracted value that were compared; for
\* margin_top = 0.75 the top-margin verdict is FAIL with evidence
\* expected 1.0, actual 0.75, match false.
C27_PassIffEvidenceMatches ==
    Evaluation =>
        /\ \A i \in 1..Len(l_result.output) :
              LET v == l_result.output[i]
              IN /\ Len(v.evidence) = 1
                 /\ v.result \in {"PASS", "FAIL"}
                 /\ v.result = "PASS" <=> v.evidence[1].match
                 /\ v.evidence[1].rule_code = v.rule_code
                 /\ v.evidence[1].expected_value = ExpectedOf(v.rule_code)
                 /\ v.evidence[1].actual_value = l_facts[v.evidence[1].fact_name]
        /\ l_facts.margin_top = Float(750) =>
              /\ l_result.output[1].rule_code = "APA7-MARGIN-TOP"
              /\ l_result.output[1].result = "FAIL"
              /\ l_result.output[1].evidence[1].expected_value = Float(1000)
              /\ l_result.output[1].evidence[1].actual_value = Float(750)
              /\ ~l_result.output[1].evidence[1].match

\* the validator has judged a top margin of 0.75 in a layout whose other
\* margins pass
C27_Witness ==
    /\ Evaluation
    /\ l_facts.margin_top = Float(750)
    /\ ~l_result.output[1].evidence[1].match
    /\ l_result.output[2].evidence[1].match /\ l_result.output[2].result = "PASS"

\* the verdict emitted under the rule code
VerdictOf(rule_code) ==
    l_verdicts[CHOOSE i \in 1..Len(l_verdicts) : l_verdicts[i].rule_code = rule_code]

\* C28: the font-validity verdict is PASS exactly when font_name is one
\* of Times New Roman, Calibri, Arial, Georgia; when it is, the font-size
\* verdict is PASS exactly when font_size equals the size paired with
\* that font (12 for Times New Roman, 11 for the others): Times New Roman
\* at 11pt fails, Calibri at 11pt passes, an unlisted font fails validity.
C28_FontRules ==
    Evaluation =>
        /\ VerdictOf("APA7-FONT-VALID").result = "PASS" <=> FontIsListed
        /\ FontIsListed =>
              (VerdictOf(PairedRule).result = "PASS" <=> l_facts.font_size = PairedSize)
        /\ (l_facts.font_name = Str("Times New Roman") /\ l_facts.font_size = Float(11000))
              => VerdictOf("APA7-FONT-SIZE-TNR").result = "FAIL"
        /\ (l_facts.font_name = Str("Calibri") /\ l_facts.font_size = Float(11000))
              => VerdictOf("APA7-FONT-SIZE-CALIBRI").result = "PASS"
        /\ l_facts.font_name = Str("Comic Sans MS")
              => VerdictOf("APA7-FONT-VALID").result = "FAIL"

\* the validator has judged Times New Roman at 11pt
C28_Witness ==
    /\ Evaluation
    /\ l_facts.font_name = Str("Times New Roman") /\ l_facts.font_size = Float(11000)
    /\ VerdictOf("APA7-FONT-VALID").result = "PASS"
    /\ VerdictOf("APA7-FONT-SIZE-TNR").result = "FAIL"

\* ------------------------------ decision engine: the stage's result
\* the Decision object built from a status and no verdicts: its
\* decision_hash is set by __post_init__
DecisionWithoutVerdicts(st) ==
    New("Decision",
        <<Field("status", JStr(st)), Field("blocking_failures", JList(<<>>)),
          Field("non_blocking_failures", JList(<<>>)), Field("all_verdicts", JList(<<>>))>>,
        <<>>)

\* C23: AranaStage.execute returns a StageResult with blocking true,
\* output the Decision it built and ok = (status is PASS); a context whose
\* meta has no "verdicts" key is treated like an empty verdict list:
\* status PASS, empty all_verdicts, a non-empty decision_hash.
C23_StageResultOfDecision ==
    Executed =>
        /\ stage_result.blocking
        /\ stage_result.output = decision
        /\ stage_result.ok <=> (decision.status = "PASS")
        /\ stage_result.error = None
        /\ a_meta = {} =>
              /\ stage_result = AranaExecute({<<"verdicts", <<>>>>}).stage_result
              /\ decision.status = "PASS" /\ stage_result.ok
              /\ decision.all_verdicts = <<>>
              /\ DecisionWithoutVerdicts(decision.status).s \notin {"", TypeError}

\* the stage has run on a context without a "verdicts" key
C23_Witness ==
    /\ Executed
    /\ a_meta = {}
    /\ stage_result.ok /\ stage_result.blocking
    /\ stage_result.output = Decision("PASS", <<>>, <<>>, <<>>)

\* the verdicts of a list, as a set
Members(list) == {list[i] : i \in 1..Len(list)}

\* how many times a verdict occurs in a list
Occurrences(list, v) == Cardinality({i \in 1..Len(list) : list[i] = v})

\* C24: the Decision of the decision stage drops no information:
\* all_verdicts is the supplied list, blocking_failures and
\* non_blocking_failures are disjoint and together hold exactly the FAIL
\* verdicts of all_verdicts, each whole (its reasoning included), and no
\* PASS verdict is in either.
C24_DecisionDropsNothing ==
    Executed =>
        /\ decision.all_verdicts = Supplied
        /\ Members(decision.blocking_failures)
              \cap Members(decision.non_blocking_failures) = {}
        /\ Members(decision.blocking_failures) \cup Members(decision.non_blocking_failures)
              = {v \in Members(decision.all_verdicts) : v.result = "FAIL"}
        /\ \A v \in Members(decision.all_verdicts) :
              v.result = "FAIL" =>
                  Occurrences(decision.blocking_failures, v)
                    + Occurrences(decision.non_blocking_failures, v)
                    = Occurrences(decision.all_verdicts, v)
        /\ \A v \in Members(decision.blocking_failures)
                      \cup Members(decision.non_blocking_failures) :
              v.result # "PASS" /\ v.reasoning = "because"

\* the stage has decided a list of a blocking failure, a failure that
\* does not block and a PASS
C24_Witness ==
    /\ Executed
    /\ Len(decision.all_verdicts) = 3
    /\ Len(decision.blocking_failures) = 1
    /\ Len(decision.non_blocking_failures) = 1
    /\ \E i \in 1..3 : decision.all_verdicts[i].result = "PASS"

\* ========================================= the decision stage in a pipeline
\* Pipeline([StageDefinition(name, blocking, AranaStage().execute), ...]):
\* the decision stage registered with either declared flag, alone, before
\* and after one of the dummy stages that succeed.
DecisionStage(blocking) == StageDefinition("STAGE_B", blocking, "AranaStage.execute")

DecisionPipelines ==
    {<<DecisionStage(b)>> : b \in BOOLEAN}
      \cup {<<DecisionStage(b), StageDefinition("STAGE_C", FALSE, "stage_a_success")>> :
              b \in BOOLEAN}
      \cup {<<StageDefinition("STAGE_A", FALSE, "stage_a_success"), DecisionStage(b),
              StageDefinition("STAGE_C", FALSE, "stage_b_success")>> : b \in BOOLEAN}

\* the verdicts the stages before the decision stage left in meta
DecidedVerdicts ==
    {Verdict("rule_001", "snap_001", "FAIL", <<"ev_001">>, "because", "error"),
     Verdict("rule_001", "snap_001", "FAIL", <<"ev_001">>, "because", "critical"),
     Verdict("rule_002", "snap_001", "PASS", <<"ev_001">>, "because", "error")}

DecisionContexts ==
    {PipelineContext("doc-12345", "test-norm-v1", None, "test-run-001",
                     {<<"verdicts", vs>>}) : vs \in BoundedSeq(DecidedVerdicts, MaxDecided)}

InitDecisionPipeline ==
    /\ stages \in DecisionPipelines
    /\ context = None
    /\ _results = <<>>
    /\ pc = "idle"
    /\ idx = 0
    /\ result = Unbound
    /\ raised = NoError
    /\ returned = NoList
    /\ got = NoList
    /\ runs = 0
    /\ invoked = <<>>
    /\ prev = [c \in DecisionContexts |-> NoRun]
    /\ AranaIdle /\ HashIdle /\ ModelIdle /\ ContextIdle /\ ConcIdle /\ LayoutIdle

NextDecisionPipeline ==
    \/ \E ctx \in DecisionContexts : Execute(ctx)
    \/ InvokeStage
    \/ RecordStage
    \/ Return
    \/ ReadResults

SpecDecisionPipeline == InitDecisionPipeline /\ [][NextDecisionPipeline]_vars

\* the position of the decision stage in the pipeline
DecisionAt == CHOOSE i \in 1..Len(stages) : stages[i].fn = "AranaStage.execute"

\* the verdicts of the context hold a blocking failure
HoldsBlockingFailure ==
    LET vs == MetaGet(context.meta, "verdicts", <<>>)
    IN \E k \in 1..Len(vs) : IsBlockingFail(vs[k])

\* C25: a pipeline run that includes the decision stage completes with a
\* Decision whose status is FAIL: when the verdicts hold a blocking failure,
\* execute returns the result list, the FAIL Decision in it, and raises no
\* blocking-stage error, and the stages declared after the decision stage
\* still run.
C25_FailDecisionCompletes ==
    (pc \in {"returned", "raised"} /\ HoldsBlockingFailure) =>
        /\ pc = "returned"
        /\ raised = NoError
        /\ returned.given
        /\ Len(returned.list) = Len(stages)
        /\ returned.list[DecisionAt].output.status = "FAIL"

\* what holds instead: the FAIL Decision halts the run at the decision stage
C25_FailDecisionHalts ==
    (pc \in {"returned", "raised"} /\ HoldsBlockingFailure) =>
        /\ pc = "raised"
        /\ raised.exc = "BlockingStageError"
        /\ Len(_results) = DecisionAt
        /\ _results[DecisionAt].output.status = "FAIL"
        /\ ~_results[DecisionAt].ok

\* ------------------------- the layout verdicts under the decision engine
\* the layout verdicts that failed and are marked blocking
BlockingLayoutFailures ==
    {v \in Members(l_verdicts) : v.result = "FAIL" /\ v.blocking}

\* C29: the layout module's notion of blocking agrees with the decision
\* engine's: every rule of the layout table marked blocking has severity
\* "error", so every FAIL verdict the layout module reports as blocking is
\* a blocking failure for aggregate_verdicts and forces status FAIL.
C29_BlockingAgrees ==
    Evaluation =>
        /\ \A v \in BlockingLayoutFailures :
              /\ RuleByCode(APA7_LAYOUT_RULES, v.rule_code).blocking
              /\ RuleByCode(APA7_LAYOUT_RULES, v.rule_code).severity = "error"
        /\ BlockingLayoutFailures
              \subseteq Members(aggregate_verdicts(l_verdicts).blocking_failures)
        /\ BlockingLayoutFailures # {} =>
              apply_precedence(aggregate_verdicts(l_verdicts).blocking_failures) = "FAIL"

\* what holds: a failed page-numbering verdict, the one rule of severity
\* "error", is a blocking failure and forces FAIL; a failure of any other
\* layout rule is a failure that does not block
C29_OnlyPageNumberingBlocks ==
    Evaluation =>
        LET agg == aggregate_verdicts(l_verdicts)
        IN /\ Members(agg.blocking_failures) =
                {v \in BlockingLayoutFailures : v.rule_code = "APA7-PAGE-NUMBERING"}
           /\ Members(agg.non_blocking_failures) =
                {v \in BlockingLayoutFailures : v.rule_code # "APA7-PAGE-NUMBERING"}
           /\ apply_precedence(agg.blocking_failures) = "FAIL"
                <=> VerdictOf("APA7-PAGE-NUMBERING").result = "FAIL"

\* ================================== the caller and the lists handed out
\* whether the list a call hands out is the retained list itself: execute
\* returns self._results, the results property returns self._results.copy()
IsRetainedList(by) == by = "execute"

\* a result the caller makes up
Forged == StageResult(TRUE, FALSE, "forged", None)

\* the caller appends to a list the pipeline handed out, once per list
CallerAppends(by) ==
    /\ Finished
    /\ LET handed == IF by = "execute" THEN returned ELSE got
       IN /\ handed.given
          /\ \A k \in 1..Len(handed.list) : handed.list[k] # Forged
          /\ returned' = IF by = "execute" THEN AList(Append(handed.list, Forged))
                         ELSE returned
          /\ got' = IF by = "results" THEN AList(Append(handed.list, Forged)) ELSE got
    /\ _results' = IF IsRetainedList(by) THEN Append(_results, Forged) ELSE _results
    /\ UNCHANGED <<stages, context, pc, idx, result, raised, runs, invoked, prev,
                   arana_vars, ext_vars>>

NextCaller ==
    \/ \E ctx \in Contexts : Execute(ctx)
    \/ InvokeStage
    \/ RecordStage
    \/ Return
    \/ ReadResults
    \/ \E by \in {"execute", "results"} : CallerAppends(by)

SpecCaller == Init /\ [][NextCaller]_vars

\* C30: the results a Pipeline retains from its last run cannot be altered
\* through a list the pipeline handed out: after the caller mutates the list
\* execute returned, or a list the results property returned, a read of
\* Pipeline.results still yields the results the last run recorded.
C30_RetainedResultsUnalterable ==
    pc \in {"returned", "raised"} => Results(_results).list = ReturnedByStages

\* what holds: appending to a list the results property returned leaves
\* the retained list as it was
C30_CopyIsSeparate == [][CallerAppends("results") => _results' = _results]_vars

====
